---- MODULE Spec2Model ----
(***************************************************************************)
(* A model of confcheck.py: one run of main(), from argument parsing to    *)
(* the process exit status.  The run is sequential; an action is the code  *)
(* between two blocking points (an operator prompt, or the end of the      *)
(* run).  External commands, file-existence tests that concern the         *)
(* configuration, and operator input are environment inputs drawn with \E. *)
(***************************************************************************)
EXTENDS Integers, Sequences, FiniteSets, TLC

VARIABLES
  pc,           \* where the run is
  args,         \* the parsed command line
  files,        \* the local sources and live targets: path -> bytes
  wc,           \* the working copy: source path -> bytes of its counterpart
  repo,         \* the result of is_git_repo
  checklist,    \* the pairs of ./CONFCHECKLIST
  idx,          \* the pair the for loop is at
  exit_status,  \* the status the process ended with
  log           \* what the run has done so far, per pair

vars == <<pc, args, files, wc, repo, checklist, idx, exit_status, log>>

----------------------------------------------------------------------------
(* Bounds of the model *)

\* longest checklist read from ./CONFCHECKLIST
MaxEntries == 2
\* most changes somebody else makes to the files while a run waits
MaxExternal == 1

----------------------------------------------------------------------------
(* Program constants *)

SUCCESS == 0
FAILURE == 2
\* exit status of the interpreter when an exception reaches the top level
\* (the handler at the bottom of the file catches ExternalCommandFailure only)
UNCAUGHT == 1

None == "None"
NoFile == "NoFile"
NoExit == -1

\* paths named by checklist lines; a path can be the source of one line and
\* the target of another, or of the same one
Paths == {"p1", "p2"}
Contents == {"a", "b"}
FileStates == [Paths -> Contents \cup {NoFile}]

\* exit codes an external command can end with
CmdCodes == {0, 3}

\* os.getcwd().split(os.path.sep) for /srv/conf/hostA/db, and the host name
cwd_parts == <<"", "srv", "conf", "hostA", "db">>
hostname == "hostA"
\* args.dir_level: <<>> when -D was not given, <<n>> for -D n
DirLevels == {<<>>, <<0>>, <<1>>, <<2>>, <<5>>}

ChecklistEntries == [source : Paths, target : Paths]
Checklists == UNION {[1..n -> ChecklistEntries] : n \in 0..MaxEntries}

----------------------------------------------------------------------------
(* Characters and strings (a string is a tuple of one-character strings) *)

LowerOf == [c \in {"y", "n", "c", "v", "q", "o", "Y", "N", "C", "V", "Q", " "} |->
              CASE c = "Y" -> "y" [] c = "N" -> "n" [] c = "C" -> "c"
                [] c = "V" -> "v" [] c = "Q" -> "q" [] OTHER -> c]
UpperOf == [c \in {"y", "n", "c", "v", "q", "o", "Y", "N", "C", "V", "Q", " "} |->
              CASE c = "y" -> "Y" [] c = "n" -> "N" [] c = "c" -> "C"
                [] c = "v" -> "V" [] c = "q" -> "Q" [] c = "o" -> "O" [] OTHER -> c]

lower(s) == [i \in 1..Len(s) |-> LowerOf[s[i]]]

RECURSIVE lstrip(_)
lstrip(s) == IF s # <<>> /\ Head(s) = " " THEN lstrip(Tail(s)) ELSE s

RECURSIVE rstrip(_)
rstrip(s) == IF s # <<>> /\ s[Len(s)] = " " THEN rstrip(SubSeq(s, 1, Len(s) - 1)) ELSE s

strip(s) == rstrip(lstrip(s))

\* what the operator may type at a prompt
Inputs == {<<>>, <<" ">>, <<"y">>, <<"Y">>, <<"n">>, <<" ", "N", "o">>,
           <<"c">>, <<"V">>, <<"q">>}

----------------------------------------------------------------------------
(* prompt_user *)

\* the default taken from the lower-case items instead
default_response_lower(allowed_responses_string) ==
  LET lows == {i \in 1..Len(allowed_responses_string) :
                 allowed_responses_string[i] = LowerOf[allowed_responses_string[i]]}
  IN  IF lows = {} THEN None
      ELSE allowed_responses_string[CHOOSE i \in lows : \A j \in lows : j <= i]

\* the default: the last item of the string that equals its upper case
default_response(allowed_responses_string) ==
  LET ups == {i \in 1..Len(allowed_responses_string) :
                allowed_responses_string[i] = UpperOf[allowed_responses_string[i]]}
  IN  IF ups = {} THEN None
      ELSE allowed_responses_string[CHOOSE i \in ups : \A j \in ups : j <= i]

allowed_responses(allowed_responses_string) ==
  {LowerOf[allowed_responses_string[i]] : i \in 1..Len(allowed_responses_string)}

Reprompt == "Reprompt"
IndexError == "IndexError"

\* the first character returned without the test against the allowed
\* responses
prompt_user_unchecked(allowed_responses_string, input) ==
  LET typed == lower(strip(input))
      dflt == default_response(allowed_responses_string)
  IN  IF typed = <<>> /\ dflt # None THEN LowerOf[dflt]
      ELSE IF typed = <<>> THEN IndexError
      ELSE LowerOf[typed[1]]

\* one pass of the while loop of prompt_user on one line of input: the
\* response returned, Reprompt when the loop goes round again, or IndexError
prompt_user(allowed_responses_string, input) ==
  LET typed == lower(strip(input))
      dflt == default_response(allowed_responses_string)
  IN  IF typed = <<>> /\ dflt # None THEN LowerOf[dflt]
      ELSE IF typed = <<>> THEN IndexError
      ELSE IF typed[1] \in allowed_responses(allowed_responses_string)
             THEN LowerOf[typed[1]]
             ELSE Reprompt

----------------------------------------------------------------------------
(* run_command *)

\* a failure is reported to the caller whatever abort_on_failure says
run_command_never_raises(return_code, abort_on_failure) ==
  IF return_code = 0 THEN "True" ELSE "False"

\* the result of run_command for a command that ended with return_code:
\* "True", "False", or "raise" (ExternalCommandFailure(return_code))
run_command(return_code, abort_on_failure) ==
  IF return_code = 0 THEN "True"
  ELSE IF abort_on_failure THEN "raise" ELSE "False"

----------------------------------------------------------------------------
(* What a run has done: a set of events, each for one pair (0: before the  *)
(* loop)                                                                   *)

Ev(ev, what, k) == [ev |-> ev, what |-> what, k |-> k]

Happened(ev, what, k) == Ev(ev, what, k) \in log

----------------------------------------------------------------------------
(* The file system *)

isfile(p) == files[p] # NoFile

\* the path built without the working copy directory: the local source
file_path_in_local_dir(src) == files[src]

\* the bytes at workingCopy/modulePath/source
file_path_in_working_copy(src) == wc[src]

\* diff -q x y: true when the two files hold the same bytes
same_bytes(x, y) == x = y

\* the copy made the other way round
copyfile_reversed(src, dst) ==
  IF src = dst THEN [raised |-> "Error", files |-> files]
  ELSE IF files[src] = NoFile THEN [raised |-> "IOError", files |-> files]
  ELSE [raised |-> "copied", files |-> [files EXCEPT ![src] = files[dst]]]

\* the two files change places
copyfile_swapped(src, dst) ==
  IF src = dst THEN [raised |-> "Error", files |-> files]
  ELSE IF files[src] = NoFile THEN [raised |-> "IOError", files |-> files]
  ELSE [raised |-> "copied",
        files |-> [files EXCEPT ![dst] = files[src], ![src] = files[dst]]]

\* shutil.copyfile(src, dst): the exception it raises ("copied" when none)
\* and the files it leaves
copyfile(src, dst) ==
  IF src = dst THEN [raised |-> "Error", files |-> files]
  ELSE IF files[src] = NoFile THEN [raised |-> "IOError", files |-> files]
  ELSE [raised |-> "copied", files |-> [files EXCEPT ![dst] = files[src]]]

----------------------------------------------------------------------------
(* The run *)

Arguments == [dir_level : DirLevels, diff_mode : BOOLEAN, package_list_mode : BOOLEAN]

Init ==
  /\ pc = "start"
  /\ args \in Arguments
  /\ files \in FileStates
  /\ wc = [p \in Paths |-> NoFile]
  /\ repo = FALSE
  /\ checklist = <<>>
  /\ idx = 0
  /\ exit_status = NoExit
  /\ log = {}

\* return from main, or an exception that reaches the top level: sys.exit
Exit(code, events) ==
  /\ pc' = "done"
  /\ exit_status' = code
  /\ log' = log \cup events

Goto(label, events) ==
  /\ pc' = label
  /\ log' = log \cup events
  /\ UNCHANGED exit_status

\* a command run with abort_on_failure left at its default
Fatal(cmd, return_code, label) ==
  IF run_command(return_code, TRUE) = "raise"
    THEN Exit(return_code, {Ev("cmd", cmd, idx)})
    ELSE Goto(label, {Ev("cmd", cmd, idx)})

\* the configuration file and the working copy directory
ReadConfig ==
  /\ pc = "start"
  /\ \E config \in {"missing", "nosection", "ok"}, isdir \in BOOLEAN :
       IF config = "missing" THEN Exit(FAILURE, {})
       ELSE IF config = "nosection" THEN Exit(UNCAUGHT, {Ev("raise", "NoSectionError", idx)})
       ELSE IF ~isdir THEN Exit(FAILURE, {})
       ELSE Goto("chown", {})
  /\ UNCHANGED <<args, files, wc, repo, checklist, idx>>

\* chown -R ends with return_code
ChownReturned(return_code) ==
  /\ pc = "chown"
  /\ Fatal("chown", return_code, "probe")
  /\ UNCHANGED <<args, files, wc, repo, checklist, idx>>

Chown == \E return_code \in CmdCodes : ChownReturned(return_code)

\* git rev-parse ends with return_code
RevParseReturned(return_code) ==
  /\ pc = "probe"
  /\ repo' = (run_command(return_code, FALSE) = "True")
  /\ Goto("sync", {Ev("cmd", "git rev-parse", idx)})
  /\ UNCHANGED <<args, files, wc, checklist, idx>>

is_git_repo == \E return_code \in CmdCodes : RevParseReturned(return_code)

\* git clone is run whatever the probe found
SyncAlwaysClones(return_code) ==
  /\ pc = "sync"
  /\ \E latest \in FileStates :
       /\ Fatal("git clone", return_code, "mode")
       /\ wc' = IF return_code = 0 THEN latest ELSE wc
  /\ UNCHANGED <<args, files, repo, checklist, idx>>

\* git pull or git clone ends with return_code; a successful one leaves the
\* latest revision in the working copy
SyncReturned(return_code) ==
  /\ pc = "sync"
  /\ \E latest \in FileStates :
       /\ Fatal(IF repo THEN "git pull" ELSE "git clone", return_code, "mode")
       /\ wc' = IF return_code = 0 THEN latest ELSE wc
  /\ UNCHANGED <<args, files, repo, checklist, idx>>

Sync == \E return_code \in CmdCodes : SyncReturned(return_code)

----------------------------------------------------------------------------
(* Package list mode: update_package_list *)

PackageHostDir ==
  /\ pc = "mode"
  /\ args.package_list_mode
  /\ \E isdir \in BOOLEAN :
       IF ~isdir THEN Exit(FAILURE, {Ev("check", "hostdir", idx)})
       ELSE Goto("inventory", {Ev("check", "hostdir", idx)})
  /\ UNCHANGED <<args, files, wc, repo, checklist, idx>>

\* one of the four commands of update_package_list ends with return_code
PackageReturned(here, cmd, next, return_code) ==
  /\ pc = here
  /\ Fatal(cmd, return_code, next)
  /\ UNCHANGED <<args, files, wc, repo, checklist, idx>>

PackageCommand(here, cmd, next) ==
  \E return_code \in CmdCodes : PackageReturned(here, cmd, next, return_code)

\* update_package_list ends without a return value: sys.exit(None)
PackageDone ==
  /\ pc = "pushed"
  /\ Exit(SUCCESS, {})
  /\ UNCHANGED <<args, files, wc, repo, checklist, idx>>

update_package_list ==
  \/ PackageHostDir
  \/ PackageCommand("inventory", "inventory", "add")
  \/ PackageCommand("add", "git add", "commit")
  \/ PackageCommand("commit", "git commit", "push")
  \/ PackageCommand("push", "git push", "pushed")
  \/ PackageDone

----------------------------------------------------------------------------
(* The current host directory *)

reversed(s) == [i \in 1..Len(s) |-> s[Len(s) + 1 - i]]

\* the current host directory looked at in package list mode too
HostCheckAnyMode ==
  /\ pc = "mode"
  /\ LET given == args.dir_level # <<>> /\ args.dir_level[1] # 0
         path_parts == reversed(cwd_parts)
         looked == {Ev("check", "host", idx)}
     IN  IF ~given THEN Goto("checklist", {})
         ELSE IF args.dir_level[1] + 1 > Len(path_parts)
           THEN Exit(UNCAUGHT, {Ev("raise", "IndexError", idx)})
         ELSE IF path_parts[args.dir_level[1] + 1] = hostname
           THEN Goto("checklist", looked)
         ELSE Goto("promptHost", looked \cup {Ev("prompt", "host", idx)})
  /\ UNCHANGED <<args, files, wc, repo, checklist, idx>>

HostCheck ==
  /\ pc = "mode"
  /\ ~args.package_list_mode
  /\ LET given == args.dir_level # <<>> /\ args.dir_level[1] # 0
         path_parts == reversed(cwd_parts)
         looked == {Ev("check", "host", idx)}
     IN  IF ~given THEN Goto("checklist", {})
         ELSE IF args.dir_level[1] + 1 > Len(path_parts)
           THEN Exit(UNCAUGHT, {Ev("raise", "IndexError", idx)})
         ELSE IF path_parts[args.dir_level[1] + 1] = hostname
           THEN Goto("checklist", looked)
         ELSE Goto("promptHost", looked \cup {Ev("prompt", "host", idx)})
  /\ UNCHANGED <<args, files, wc, repo, checklist, idx>>

\* the question asked with yes as its default
HostAnsweredDefaultYes(input) ==
  /\ pc = "promptHost"
  /\ LET response == prompt_user(<<"Y", "n">>, input)
     IN  IF response = Reprompt THEN UNCHANGED <<pc, exit_status, log>>
         ELSE IF response # "y" THEN Exit(2, {Ev("answer", response, idx)})
         ELSE Goto("checklist", {Ev("answer", response, idx)})
  /\ UNCHANGED <<args, files, wc, repo, checklist, idx>>

HostAnswered(input) ==
  /\ pc = "promptHost"
  /\ LET response == prompt_user(<<"y", "N">>, input)
     IN  IF response = Reprompt THEN UNCHANGED <<pc, exit_status, log>>
         ELSE IF response # "y" THEN Exit(2, {Ev("answer", response, idx)})
         ELSE Goto("checklist", {Ev("answer", response, idx)})
  /\ UNCHANGED <<args, files, wc, repo, checklist, idx>>

AnswerHost == \E input \in Inputs : HostAnswered(input)

\* the checklist file, read whole before the first pair is examined; a
\* line that read_checklist cannot unpack ends the run with ValueError
ReadChecklist ==
  /\ pc = "checklist"
  /\ \E exists \in BOOLEAN, unpacked \in BOOLEAN, entries \in Checklists :
       IF ~exists
         THEN Exit(2, {Ev("check", "checklist", idx)}) /\ UNCHANGED <<checklist, idx>>
       ELSE IF ~unpacked
         THEN Exit(UNCAUGHT, {Ev("check", "checklist", idx), Ev("raise", "ValueError", idx)})
              /\ UNCHANGED <<checklist, idx>>
         ELSE /\ Goto("entry", {Ev("check", "checklist", idx)})
              /\ checklist' = entries
              /\ idx' = 1
  /\ UNCHANGED <<args, files, wc, repo>>

----------------------------------------------------------------------------
(* The loop over the checklist *)

source == checklist[idx].source
target == checklist[idx].target

\* the loop stays at the pair it has dealt with
NextEntryStays(how, events) ==
  /\ Goto("entry", events \cup {Ev("resolve", how, idx)})
  /\ idx' = idx

\* continue, or break out of the while loop: on to the next pair
NextEntry(how, events) ==
  /\ Goto("entry", events \cup {Ev("resolve", how, idx)})
  /\ idx' = idx + 1

\* the failure is reported and the loop goes on
FailContinues(how, events) == NextEntry(how, events)

\* return FAILURE from inside the loop
Fail(how, events) ==
  /\ Exit(FAILURE, events \cup {Ev("resolve", how, idx)})
  /\ UNCHANGED idx

\* prompt_user is called: the run waits for the operator
Ask(label, what, events) ==
  /\ Goto(label, events \cup {Ev("prompt", what, idx)})
  /\ UNCHANGED idx

\* clear, then diff -u | less: the events, and the code the run aborts
\* with (NoExit when it goes on)
Display(clear_code, less_code) ==
  IF run_command(clear_code, TRUE) = "raise"
    THEN [events |-> {Ev("cmd", "clear", idx)}, abort |-> clear_code]
  ELSE IF run_command(less_code, FALSE) = "raise"
    THEN [events |-> {Ev("cmd", "clear", idx), Ev("cmd", "diff | less", idx)},
          abort |-> less_code]
  ELSE [events |-> {Ev("cmd", "clear", idx), Ev("cmd", "diff | less", idx)},
        abort |-> NoExit]

\* the top of the while loop without the lookup in the working copy
WhileTopNoLookup ==
  /\ pc = "while"
  /\ LET compared == {Ev("compare", "tracked", idx)}
     IN  IF same_bytes(file_path_in_working_copy(source), files[target])
           THEN NextEntry("UpToDate", compared)
         ELSE Ask("promptModified", "modified", compared)
  /\ UNCHANGED <<args, files, wc, repo, checklist>>

\* one pass through the top of the while loop: the version in the working
\* copy is looked up and compared with the target
WhileTop ==
  /\ pc = "while"
  /\ LET looked == {Ev("check", "tracked", idx)}
         compared == looked \cup {Ev("compare", "tracked", idx)}
     IN  IF file_path_in_working_copy(source) = NoFile THEN Fail("NotTracked", looked)
         ELSE IF same_bytes(file_path_in_working_copy(source), files[target])
           THEN NextEntry("UpToDate", compared)
         ELSE Ask("promptModified", "modified", compared)
  /\ UNCHANGED <<args, files, wc, repo, checklist>>

\* the body of the for loop with the target tested before the source
ExamineEntryTargetFirst ==
  /\ pc = "entry"
  /\ idx <= Len(checklist)
  /\ LET seen == {Ev("examine", "entry", idx)}
         compared == seen \cup {Ev("compare", "source", idx)}
     IN  IF ~isfile(target) THEN Ask("promptTarget", "target", seen)
         ELSE IF ~isfile(source) THEN Fail("SourceMissing", seen)
         ELSE IF args.diff_mode
           THEN IF same_bytes(files[target], files[source])
                  THEN NextEntry("DiffSame", compared)
                  ELSE Ask("promptShow", "show", compared)
         ELSE Goto("while", seen) /\ UNCHANGED idx
  /\ UNCHANGED <<args, files, wc, repo, checklist>>

\* the body of the for loop up to its first prompt
ExamineEntry ==
  /\ pc = "entry"
  /\ idx <= Len(checklist)
  /\ LET seen == {Ev("examine", "entry", idx)}
         compared == seen \cup {Ev("compare", "source", idx)}
     IN  IF ~isfile(source) THEN Fail("SourceMissing", seen)
         ELSE IF ~isfile(target) THEN Ask("promptTarget", "target", seen)
         ELSE IF args.diff_mode
           THEN IF same_bytes(files[target], files[source])
                  THEN NextEntry("DiffSame", compared)
                  ELSE Ask("promptShow", "show", compared)
         ELSE Goto("while", seen) /\ UNCHANGED idx
  /\ UNCHANGED <<args, files, wc, repo, checklist>>

\* the accepted pair is not skipped: the remaining checks are made for it
TargetMissingAnsweredFallsThrough(input) ==
  /\ pc = "promptTarget"
  /\ LET response == prompt_user(<<"Y", "n">>, input)
         answered == {Ev("answer", response, idx)}
     IN  IF response = Reprompt THEN UNCHANGED <<pc, exit_status, log, idx>>
         ELSE IF response = "n" THEN Fail("TargetMissingDeclined", answered)
         ELSE Goto("while", answered) /\ UNCHANGED idx
  /\ UNCHANGED <<args, files, wc, repo, checklist>>

TargetMissingAnswered(input) ==
  /\ pc = "promptTarget"
  /\ LET response == prompt_user(<<"Y", "n">>, input)
         answered == {Ev("answer", response, idx)}
     IN  IF response = Reprompt THEN UNCHANGED <<pc, exit_status, log, idx>>
         ELSE IF response = "n" THEN Fail("TargetMissingDeclined", answered)
         ELSE NextEntry("TargetMissingAccepted", answered)
  /\ UNCHANGED <<args, files, wc, repo, checklist>>

AnswerTargetMissing == \E input \in Inputs : TargetMissingAnswered(input)

ShowDiffAnswered(input) ==
  /\ pc = "promptShow"
  /\ LET response == prompt_user(<<"Y", "n">>, input)
         answered == {Ev("answer", response, idx)}
     IN  IF response = Reprompt THEN UNCHANGED <<pc, exit_status, log, idx>>
         ELSE IF response # "y" THEN NextEntry("DiffReported", answered)
         ELSE \E clear_code \in CmdCodes, less_code \in CmdCodes :
                LET shown == Display(clear_code, less_code)
                IN  IF shown.abort # NoExit
                      THEN Exit(shown.abort, answered \cup shown.events) /\ UNCHANGED idx
                      ELSE NextEntry("DiffReported", answered \cup shown.events)
  /\ UNCHANGED <<args, files, wc, repo, checklist>>

AnswerShowDiff == \E input \in Inputs : ShowDiffAnswered(input)

ModifiedAnswered(input) ==
  /\ pc = "promptModified"
  /\ LET response == prompt_user(<<"y", "N", "c", "v">>, input)
         answered == {Ev("answer", response, idx)}
         copied == copyfile(target, source)
     IN  IF response = Reprompt THEN UNCHANGED <<pc, exit_status, log, idx, files>>
         ELSE IF response = "n"
           THEN Fail("DivergenceDeclined", answered) /\ UNCHANGED files
         ELSE IF response = "y"
           THEN NextEntry("DivergenceAccepted", answered) /\ UNCHANGED files
         ELSE IF response = "v"
           THEN /\ UNCHANGED files
                /\ \E clear_code \in CmdCodes, less_code \in CmdCodes :
                     LET shown == Display(clear_code, less_code)
                     IN  IF shown.abort # NoExit
                           THEN Exit(shown.abort, answered \cup shown.events)
                                /\ UNCHANGED idx
                           ELSE Goto("while", answered \cup shown.events)
                                /\ UNCHANGED idx
         ELSE IF copied.raised # "copied"
           THEN Exit(UNCAUGHT, answered \cup {Ev("raise", copied.raised, idx)})
                /\ UNCHANGED <<files, idx>>
         ELSE /\ files' = copied.files
              /\ Goto("while", answered \cup {Ev("copy", "source", idx)})
              /\ UNCHANGED idx
  /\ UNCHANGED <<args, wc, repo, checklist>>

AnswerModified == \E input \in Inputs : ModifiedAnswered(input)

Externals == Cardinality({e \in log : e.ev = "external"})

\* somebody else changes the live target, or the counterpart in the working
\* copy, while the run waits for the answer to the four-choice question
External ==
  /\ pc = "promptModified"
  /\ Externals < MaxExternal
  /\ \E v \in Contents \cup {NoFile} :
       \/ /\ ~Happened("external", "target", idx)
          /\ files' = [files EXCEPT ![target] = v]
          /\ files' # files
          /\ log' = log \cup {Ev("external", "target", idx)}
          /\ UNCHANGED wc
       \/ /\ ~Happened("external", "tracked", idx)
          /\ wc' = [wc EXCEPT ![source] = v]
          /\ wc' # wc
          /\ log' = log \cup {Ev("external", "tracked", idx)}
          /\ UNCHANGED files
  /\ UNCHANGED <<pc, args, repo, checklist, idx, exit_status>>

\* the for loop is over: return SUCCESS
ReturnSuccess ==
  /\ pc = "entry"
  /\ idx > Len(checklist)
  /\ Exit(SUCCESS, {})
  /\ UNCHANGED <<args, files, wc, repo, checklist, idx>>

main ==
  \/ ReadConfig
  \/ Chown
  \/ is_git_repo
  \/ Sync
  \/ update_package_list
  \/ HostCheck
  \/ AnswerHost
  \/ ReadChecklist
  \/ ExamineEntry
  \/ AnswerTargetMissing
  \/ AnswerShowDiff
  \/ WhileTop
  \/ AnswerModified
  \/ ReturnSuccess

Next == main \/ External

Spec == Init /\ [][Next]_vars

\* The runs in check mode and in diff mode that are started without -D
InitEntries ==
  /\ Init
  /\ args.dir_level = <<>>
  /\ ~args.package_list_mode

NextEntries ==
  \/ ReadConfig
  \/ Chown
  \/ is_git_repo
  \/ Sync
  \/ HostCheck
  \/ ReadChecklist
  \/ ExamineEntry
  \/ AnswerTargetMissing
  \/ AnswerShowDiff
  \/ WhileTop
  \/ AnswerModified
  \/ ReturnSuccess
  \/ External

SpecEntries == InitEntries /\ [][NextEntries]_vars

\* The runs in every mode, with and without -D, while nobody else changes
\* the files
SpecFront == Init /\ [][main]_vars

\* Every command returns and every question gets an answer that is taken:
\* a step of the run that can be taken is taken; and the four-choice
\* question, asked again and again, gets 'y' or 'n' in the end
Progress ==
  \/ ReadConfig
  \/ Chown
  \/ is_git_repo
  \/ Sync
  \/ update_package_list
  \/ HostCheck
  \/ AnswerHost
  \/ ReadChecklist
  \/ ExamineEntry
  \/ AnswerTargetMissing
  \/ AnswerShowDiff
  \/ WhileTop
  \/ ReturnSuccess

Decided == ModifiedAnswered(<<"y">>) \/ ModifiedAnswered(<<"n">>)

Fairness == WF_vars(Progress) /\ SF_vars(Decided)

SpecFrontFair == Init /\ [][main]_vars /\ Fairness

----------------------------------------------------------------------------
(* prompt_user called on its own: args holds its response string and the   *)
(* lines the operator is going to type, idx counts the lines read so far    *)

\* most lines typed at one prompt
MaxTyped == 2

\* response strings with exactly one upper-case letter
ResponseStrings == {<<"y", "N">>, <<"Y", "n">>, <<"y", "N", "c", "v">>, <<"Q", "c">>}

TypedLines == UNION {[1..n -> Inputs] : n \in 0..MaxTyped}

InitPrompt ==
  /\ pc = "raw_input"
  /\ args \in [allowed_responses_string : ResponseStrings, typed : TypedLines]
  /\ files = [p \in Paths |-> NoFile]
  /\ wc = [p \in Paths |-> NoFile]
  /\ repo = FALSE
  /\ checklist = <<>>
  /\ idx = 0
  /\ exit_status = NoExit
  /\ log = {}

\* one pass of the while loop: a line is read, and the function returns,
\* prints its complaint and goes round again, or raises
PromptPass ==
  /\ pc = "raw_input"
  /\ idx < Len(args.typed)
  /\ LET response == prompt_user(args.allowed_responses_string, args.typed[idx + 1])
     IN  IF response = Reprompt
           THEN Goto("raw_input", {Ev("print", "not recognized", idx + 1)})
         ELSE IF response = IndexError
           THEN Goto("raised", {Ev("raise", IndexError, idx + 1)})
         ELSE Goto("returned", {Ev("return", response, idx + 1)})
  /\ idx' = idx + 1
  /\ UNCHANGED <<args, files, wc, repo, checklist>>

SpecPrompt == InitPrompt /\ [][PromptPass]_vars

----------------------------------------------------------------------------
(* read_checklist called on its own: args holds the lines of the file, idx  *)
(* counts the lines read so far, checklist is the list it builds            *)

\* most lines in a checklist file
MaxLines == 2

separator == ","

\* lines of a checklist file, without their line ends
Lines == {<<"a", ",", "b">>,
          <<"a", ",", "b", ",", "c">>,
          <<"a", "b">>,
          <<>>,
          <<"#", "a", ",", "b">>,
          <<"a", ",", "b", " ", "#", " ", "c">>,
          <<" ", ",", "b">>,
          <<" ", "a", ",", " ", "#", "b">>}

ChecklistFiles == UNION {[1..n -> Lines] : n \in 0..MaxLines}

\* the characters of a string
chars(s) == {s[i] : i \in 1..Len(s)}

\* the place of the first c in s (s holds one)
find(s, c) == CHOOSE i \in 1..Len(s) : s[i] = c /\ \A j \in 1..(i - 1) : s[j] # c

\* re.sub(r'#.*$', '', line)
trim_comment(line) ==
  IF "#" \in chars(line) THEN SubSeq(line, 1, find(line, "#") - 1) ELSE line

\* s.split(sep, maxsplit): the list of the parts
RECURSIVE split(_, _, _)
split(s, sep, maxsplit) ==
  IF maxsplit = 0 \/ sep \notin chars(s) THEN <<s>>
  ELSE <<SubSeq(s, 1, find(s, sep) - 1)>>
         \o split(SubSeq(s, find(s, sep) + 1, Len(s)), sep, maxsplit - 1)

InitChecklist ==
  /\ pc = "read_checklist"
  /\ args \in [checklist_file : ChecklistFiles]
  /\ files = [p \in Paths |-> NoFile]
  /\ wc = [p \in Paths |-> NoFile]
  /\ repo = FALSE
  /\ checklist = <<>>
  /\ idx = 0
  /\ exit_status = NoExit
  /\ log = {}

\* the body of the loop over the lines of the file; source, target = ...
\* raises ValueError unless the split gave two parts
ReadLine ==
  /\ pc = "read_checklist"
  /\ idx < Len(args.checklist_file)
  /\ LET line == strip(trim_comment(args.checklist_file[idx + 1]))
         parts == split(line, separator, 2)
     IN  IF separator \notin chars(line)
           THEN Goto("read_checklist", {}) /\ UNCHANGED checklist
         ELSE IF Len(parts) # 2
           THEN Goto("raised", {Ev("raise", "ValueError", idx + 1)}) /\ UNCHANGED checklist
         ELSE IF parts[1] # <<>> /\ parts[2] # <<>>
           THEN /\ Goto("read_checklist", {Ev("append", "pair", idx + 1)})
                /\ checklist' = Append(checklist, [source |-> parts[1], target |-> parts[2]])
         ELSE Goto("read_checklist", {}) /\ UNCHANGED checklist
  /\ idx' = idx + 1
  /\ UNCHANGED <<args, files, wc, repo>>

\* the end of the file: return checklist
ReturnChecklist ==
  /\ pc = "read_checklist"
  /\ idx = Len(args.checklist_file)
  /\ Goto("returned", {})
  /\ UNCHANGED <<args, files, wc, repo, checklist, idx>>

read_checklist == ReadLine \/ ReturnChecklist

SpecChecklist == InitChecklist /\ [][read_checklist]_vars

----------------------------------------------------------------------------
(* Vocabulary of the properties *)

Entries == 1..Len(checklist)

Resolved(how, k) == Happened("resolve", how, k)

AcceptedStates == {"TargetMissingAccepted", "DiffSame", "DiffReported", "UpToDate",
                   "DivergenceAccepted"}
FailedStates == {"SourceMissing", "NotTracked", "TargetMissingDeclined",
                 "DivergenceDeclined"}

EntryAccepted(k) == \E how \in AcceptedStates : Resolved(how, k)
EntryFailed(k) == \E how \in FailedStates : Resolved(how, k)

\* the kinds of things done for pair k
Done(k) == {e.ev : e \in {x \in log : x.k = k}}

\* nothing has been done for any pair after k
NothingAfter(k) == \A e \in log : e.k <= k

NoExternal == \A e \in log : e.ev # "external"

----------------------------------------------------------------------------
(* C1: the run exits with status 0 only if every pair of the checklist was  *)
(* resolved to an accepted state; and once a pair has ended in a failure    *)
(* the run is over, with a status other than 0.                             *)
C1_SuccessOnlyIfAllAccepted ==
  /\ (pc = "done" /\ exit_status = 0 /\ ~args.package_list_mode)
        => \A k \in Entries : EntryAccepted(k)
  /\ \A k \in Entries : EntryFailed(k) => (pc = "done" /\ exit_status # 0)

\* a run of two pairs that ends with 0: one passed by itself, the other was
\* accepted by the operator
C1_Witness ==
  /\ pc = "done" /\ exit_status = 0 /\ Len(checklist) = 2
  /\ \E j, k \in Entries : Resolved("UpToDate", j) /\ Resolved("DivergenceAccepted", k)

(* C2: when the source of the pair being examined is not a regular file the *)
(* run ends at once with status 2: nothing but the examination has been     *)
(* done for the pair (no prompt, no comparison), and nothing for any later  *)
(* pair; in check mode and in diff mode.                                    *)
C2_SourceMissingEndsRun ==
  /\ [][(pc = "entry" /\ idx <= Len(checklist) /\ ~isfile(source))
          => (pc' = "done" /\ exit_status' = 2 /\ idx' = idx
              /\ log' = log \cup {Ev("examine", "entry", idx),
                                  Ev("resolve", "SourceMissing", idx)})]_vars
  /\ [](\A k \in Entries :
          Resolved("SourceMissing", k) =>
            /\ pc = "done" /\ exit_status = 2
            /\ Done(k) = {"examine", "resolve"}
            /\ NothingAfter(k))

\* the first of two pairs has no source
C2_Witness ==
  /\ Len(checklist) = 2
  /\ Resolved("SourceMissing", 1)
  /\ args.diff_mode

(* C3: on every pass through the top of the while loop, when the counterpart *)
(* in the working copy does not exist the run ends there with status 2: no  *)
(* prompt is issued on that pass and the loop does not move to another      *)
(* pair; when that happens on the first pass, no prompt was issued for the  *)
(* pair at all.                                                             *)
C3_NotTrackedEndsRun ==
  /\ [][(pc = "while" /\ file_path_in_working_copy(source) = NoFile)
          => (pc' = "done" /\ exit_status' = 2 /\ idx' = idx
              /\ {e \in log' : e.ev = "prompt"} = {e \in log : e.ev = "prompt"})]_vars
  /\ [](\A k \in Entries :
          Resolved("NotTracked", k) =>
            /\ pc = "done" /\ exit_status = 2 /\ NothingAfter(k)
            /\ ~Happened("external", "tracked", k) => "prompt" \notin Done(k))

\* the counterpart disappears while the run waits at the four-choice
\* question, and a later pass finds it missing
C3_Witness ==
  \E k \in Entries :
    /\ Resolved("NotTracked", k)
    /\ Happened("prompt", "modified", k)
    /\ Happened("answer", "v", k)
    /\ k < Len(checklist)

(* C4, as claimed: at the question about a missing target, an empty line    *)
(* of input declines, and the run ends in failure.                          *)
C4_EmptyInputDeclines ==
  [][TargetMissingAnswered(<<>>) => (pc' = "done" /\ exit_status' # 0)]_vars

(* C4, amended: the question about a missing target is asked with "Yn", so  *)
(* its default is yes: an empty line of input accepts, and the run moves on *)
(* to the next pair without failing.                                        *)
C4_EmptyInputAccepts ==
  [][TargetMissingAnswered(<<>>)
       => (pc' = "entry" /\ idx' = idx + 1 /\ exit_status' = NoExit
           /\ Ev("resolve", "TargetMissingAccepted", idx) \in log'
           /\ Ev("answer", "y", idx) \in log')]_vars

\* the first pair's target is missing and was accepted; the loop is at the
\* second pair
C4_Witness ==
  /\ pc = "entry" /\ idx = 2 /\ exit_status = NoExit
  /\ Resolved("TargetMissingAccepted", 1)
  /\ ~isfile(checklist[1].target)

(* C5: at the question about a missing target, the answer 'n' ends the run  *)
(* with status 2 and no later pair is examined; the answer 'y' moves to the *)
(* next pair, and nothing else is ever done for this pair: no comparison,   *)
(* no display, no copy, no other prompt; in check mode and in diff mode.    *)
C5_MissingTargetAnswers ==
  /\ [][TargetMissingAnswered(<<"n">>)
          => (pc' = "done" /\ exit_status' = 2 /\ idx' = idx /\ files' = files)]_vars
  /\ [][TargetMissingAnswered(<<"y">>)
          => (pc' = "entry" /\ idx' = idx + 1 /\ exit_status' = NoExit
              /\ files' = files /\ wc' = wc)]_vars
  /\ [](\A k \in Entries :
          /\ Resolved("TargetMissingDeclined", k)
               => (pc = "done" /\ exit_status = 2 /\ NothingAfter(k))
          /\ Resolved("TargetMissingAccepted", k)
               => /\ Done(k) = {"examine", "prompt", "answer", "resolve"}
                  /\ \A e \in log : (e.k = k /\ e.ev = "prompt") => e.what = "target")

\* the first pair's missing target was accepted and the second one's declined
C5_Witness ==
  /\ Resolved("TargetMissingAccepted", 1)
  /\ Resolved("TargetMissingDeclined", 2)
  /\ pc = "done"

(* C6: in check mode, when the counterpart in the working copy exists, a    *)
(* pass through the top of the while loop accepts the pair exactly when the *)
(* target holds the same bytes as the counterpart, and asks the four-choice *)
(* question otherwise, whatever the local source holds; a pair accepted so  *)
(* on the first pass had no prompt, and a run all of whose pairs were       *)
(* accepted so exits 0 without any prompt.                                  *)
C6_AcceptedIffSameAsTracked ==
  /\ [][(pc = "while" /\ wc[source] # NoFile)
          => /\ (pc' = "entry" /\ idx' = idx + 1) <=> (files[target] = wc[source])
             /\ (pc' = "promptModified" /\ idx' = idx) <=> (files[target] # wc[source])
             /\ exit_status' = NoExit]_vars
  /\ [](\A k \in Entries :
          (Resolved("UpToDate", k) /\ "external" \notin Done(k))
             => Done(k) = {"examine", "check", "compare", "resolve"})
  /\ []((pc = "done" /\ Len(checklist) > 0 /\ \A k \in Entries : Resolved("UpToDate", k)
           /\ NoExternal)
          => (exit_status = 0 /\ \A e \in log : e.ev # "prompt"))

\* two pairs passed by themselves, one of them with a local source that
\* differs from its target
C6_Witness ==
  /\ pc = "done" /\ exit_status = 0 /\ Len(checklist) = 2
  /\ \A k \in Entries : Resolved("UpToDate", k)
  /\ \E k \in Entries : files[checklist[k].source] # files[checklist[k].target]
  /\ \A e \in log : e.ev # "prompt"

(* C7, as claimed: with no change made to the files by anybody else, a pair *)
(* that reached the four-choice question is left only by the answer 'y'     *)
(* (accepted) or the answer 'n' (the run ends with status 2): after 'v' and *)
(* after 'c' the question is asked again.                                   *)
C7_LeftOnlyByYesOrNo ==
  \A k \in Entries :
    (Happened("prompt", "modified", k) /\ NoExternal /\ (idx > k \/ pc = "done"))
      => \/ Resolved("DivergenceAccepted", k)
         \/ Resolved("DivergenceDeclined", k) /\ exit_status = 2

(* C8: when the target differs from the counterpart in the working copy,    *)
(* the answer 'c' writes the target's bytes over the local source and       *)
(* leaves the target and the working copy as they were; the answer 'y'      *)
(* then accepts the pair and changes no file; so after 'c' then 'y' the     *)
(* source holds the target's bytes, and a run all of whose pairs were       *)
(* accepted exits 0.                                                        *)
C8_CopyThenYes ==
  /\ [][(ModifiedAnswered(<<"c">>) /\ pc' # "done")
          => (pc' = "while" /\ idx' = idx /\ wc' = wc
              /\ files'[source] = files[target]
              /\ files'[target] = files[target]
              /\ \A p \in Paths \ {source} : files'[p] = files[p])]_vars
  /\ [][ModifiedAnswered(<<"y">>)
          => (pc' = "entry" /\ idx' = idx + 1 /\ files' = files /\ wc' = wc
              /\ Ev("resolve", "DivergenceAccepted", idx) \in log')]_vars
  /\ [](\A k \in Entries :
          (Happened("copy", "source", k) /\ Resolved("DivergenceAccepted", k) /\ NoExternal
             /\ \A e \in log : e.ev = "copy" => e.k <= k)
            => /\ files[checklist[k].source] = files[checklist[k].target]
               /\ wc[checklist[k].source] # files[checklist[k].target])
  /\ []((pc = "done" /\ Len(checklist) > 0 /\ \A k \in Entries : EntryAccepted(k))
          => exit_status = 0)

\* a run of two pairs that ends with 0 after 'c' then 'y' for one of them
C8_Witness ==
  /\ pc = "done" /\ exit_status = 0 /\ Len(checklist) = 2 /\ NoExternal
  /\ \E k \in Entries :
       /\ Happened("copy", "source", k) /\ Resolved("DivergenceAccepted", k)
       /\ "cmd" \notin Done(k)
       /\ files[checklist[k].source] = files[checklist[k].target]

(* C9, as claimed: in diff mode a pair whose source and target both exist   *)
(* never makes the run fail or abort: once it has been compared, either the *)
(* loop is still at it or it has moved on to the next pair.                 *)
C9_DiffModeNeverAborts ==
  \A k \in Entries :
    (args.diff_mode /\ Happened("compare", "source", k))
      => \/ idx = k /\ pc # "done"
         \/ Resolved("DiffSame", k) \/ Resolved("DiffReported", k)

(* C10, as claimed: in diff mode, for a pair whose source and target both   *)
(* exist, the question whether to show the diff is asked exactly when the   *)
(* two differ, an empty line of input answers it with yes, and once the     *)
(* pair is over the diff was sent to the pager exactly when the two differ  *)
(* and the answer was yes.                                                  *)
C10_DisplayIffDifferentAndYes ==
  /\ [][ShowDiffAnswered(<<>>) => Ev("answer", "y", idx) \in log']_vars
  /\ [](\A k \in Entries :
          (args.diff_mode /\ Happened("compare", "source", k))
            => LET differ == files[checklist[k].source] # files[checklist[k].target]
                   over == idx > k \/ pc = "done"
               IN  /\ Happened("prompt", "show", k) <=> differ
                   /\ over => (Happened("cmd", "diff | less", k)
                                 <=> (differ /\ Happened("answer", "y", k))))

----------------------------------------------------------------------------
(* prompt_user *)

\* the option set of the response string of the call
Options == {LowerOf[args.allowed_responses_string[i]] :
              i \in 1..Len(args.allowed_responses_string)}

\* the letter of the response string written in upper case
DefaultLetter ==
  CHOOSE c \in {args.allowed_responses_string[i] :
                  i \in 1..Len(args.allowed_responses_string)} : c = UpperOf[c]

\* line i as typed is empty or starts with a letter of the option set
ValidAsTyped(i) ==
  \/ args.typed[i] = <<>>
  \/ LowerOf[args.typed[i][1]] \in Options

\* line i without its surrounding blanks is empty or starts with a letter
\* of the option set
ValidTrimmed(i) ==
  \/ strip(args.typed[i]) = <<>>
  \/ LowerOf[strip(args.typed[i])[1]] \in Options

(* C11, as claimed: prompt_user returns on the first line that is empty     *)
(* (the default) or whose first character, whatever its case, is in the     *)
(* option set (that letter), and prints its complaint and reads again on    *)
(* every other line; it returns only lower-case letters of the option set.  *)
C11_ReturnsOnFirstValidAsTyped ==
  /\ \A e \in log : e.ev = "return" => e.what \in Options
  /\ \A i \in 1..idx :
       IF ValidAsTyped(i)
         THEN /\ pc = "returned" /\ idx = i
              /\ Happened("return", IF args.typed[i] = <<>> THEN LowerOf[DefaultLetter]
                                     ELSE LowerOf[args.typed[i][1]], i)
         ELSE Happened("print", "not recognized", i)

(* C11, amended: each line is first trimmed of its surrounding blanks;      *)
(* prompt_user returns on the first line that is then empty (the default,   *)
(* in lower case) or whose first character, whatever its case, is in the    *)
(* option set (that letter, in lower case), and prints its complaint and    *)
(* reads again on every other line; it never raises and never returns       *)
(* anything but a lower-case letter of the option set.                      *)
C11_ReturnsOnFirstValidTrimmed ==
  /\ pc # "raised"
  /\ \A e \in log : e.ev = "return" => (e.what \in Options /\ e.what = LowerOf[e.what])
  /\ \A i \in 1..idx :
       IF ValidTrimmed(i)
         THEN /\ pc = "returned" /\ idx = i
              /\ Happened("return", IF strip(args.typed[i]) = <<>> THEN LowerOf[DefaultLetter]
                                     ELSE LowerOf[strip(args.typed[i])[1]], i)
              /\ ~Happened("print", "not recognized", i)
         ELSE /\ Happened("print", "not recognized", i)
              /\ \A e \in log : e.ev = "return" => e.k # i
  /\ pc = "raw_input" => \A i \in 1..idx : ~ValidTrimmed(i)

\* a line outside the option set was refused, and the next one, typed with
\* a blank in front and in upper case, was taken
C11_Witness ==
  /\ pc = "returned" /\ idx = 2
  /\ args.typed = << <<"q">>, <<" ", "N", "o">> >>
  /\ args.allowed_responses_string = <<"y", "N", "c", "v">>
  /\ Happened("print", "not recognized", 1)
  /\ Happened("return", "n", 2)

----------------------------------------------------------------------------
(* read_checklist *)

\* a line without its comment and its surrounding blanks
Trimmed(line) == strip(trim_comment(line))

\* the two fields of a line that holds a comma: what is before the first
\* comma, and everything after it
FirstField(line) == SubSeq(Trimmed(line), 1, find(Trimmed(line), ",") - 1)
RestField(line) == SubSeq(Trimmed(line), find(Trimmed(line), ",") + 1, Len(Trimmed(line)))

\* the line yields an entry: it holds a comma and neither field is empty
YieldsEntry(line) ==
  /\ "," \in chars(Trimmed(line))
  /\ strip(FirstField(line)) # <<>>
  /\ strip(RestField(line)) # <<>>

\* the entries of the first n lines, split on the first comma only
RECURSIVE EntriesOf(_, _)
EntriesOf(lines, n) ==
  IF n = 0 THEN <<>>
  ELSE IF YieldsEntry(lines[n])
    THEN Append(EntriesOf(lines, n - 1),
                [source |-> FirstField(lines[n]), target |-> RestField(lines[n])])
  ELSE EntriesOf(lines, n - 1)

(* C12, as claimed: read_checklist never fails, whatever the lines hold;    *)
(* after each line the list holds, in the order of the lines, one entry for *)
(* every line read so far that has a comma and two non-empty fields, the    *)
(* line being split on its first comma only ("a,b,c" gives source "a" and   *)
(* target "b,c"), and no entry for any other line.                          *)
C12_SplitOnFirstComma ==
  /\ pc # "raised"
  /\ checklist = EntriesOf(args.checklist_file, idx)

----------------------------------------------------------------------------
(* The steps before the loop *)

\* -D was given
Supplied == args.dir_level # <<>>

\* -D names a segment of the path of the current directory
WithinDepth == Supplied /\ args.dir_level[1] < Len(cwd_parts)

\* the segment -D names: 0 is the current directory, 1 its parent
Segment == reversed(cwd_parts)[args.dir_level[1] + 1]

SyncEvents == {Ev("cmd", "chown", 0), Ev("cmd", "git rev-parse", 0),
               Ev("cmd", "git pull", 0), Ev("cmd", "git clone", 0)}

PackageEvents == {Ev("check", "hostdir", 0), Ev("cmd", "inventory", 0),
                  Ev("cmd", "git add", 0), Ev("cmd", "git commit", 0),
                  Ev("cmd", "git push", 0)}

\* what the run has done that belongs to its mode
ModeSpecific == {e \in log : e \notin SyncEvents /\ e # Ev("raise", "NoSectionError", 0)}

\* the checklist has not been looked for and no pair has been examined
ChecklistUntouched == \A e \in log : e.k = 0 /\ e # Ev("check", "checklist", 0)

\* a run that has ended takes no further step
Terminal == [][pc = "done" => UNCHANGED vars]_vars

(* C13, as claimed: in check and diff mode, whenever -D names a segment of  *)
(* the path, 0 included, the segment is compared with the host name: the    *)
(* run goes on to the checklist when they are equal and to the yes/no       *)
(* question when they differ; the comparison is left out only without -D.   *)
C13_CheckedWheneverSupplied ==
  /\ [][(pc = "mode" /\ ~args.package_list_mode /\ WithinDepth)
          => /\ Ev("check", "host", 0) \in log'
             /\ IF Segment = hostname THEN pc' = "checklist" ELSE pc' = "promptHost"]_vars
  /\ [][(pc = "mode" /\ pc' = "checklist" /\ Ev("check", "host", 0) \notin log')
          => ~Supplied]_vars

(* C14, as claimed: in check and diff mode, when -D is larger than the      *)
(* depth of the path the run ends there with status 2, and the checklist    *)
(* is not read and no pair is examined.                                     *)
C14_BeyondDepthExitsTwo ==
  [][(pc = "mode" /\ ~args.package_list_mode /\ Supplied /\ ~WithinDepth)
       => (pc' = "done" /\ exit_status' = 2 /\ ChecklistUntouched')]_vars

C16_SyncBeforeModes ==
  /\ []((ModeSpecific # {} \/ pc \notin {"start", "chown", "probe", "sync", "done"})
          => /\ Happened("cmd", "chown", 0)
             /\ Happened("cmd", "git rev-parse", 0)
             /\ Happened("cmd", "git pull", 0) <=> repo
             /\ Happened("cmd", "git clone", 0) <=> ~repo)
  /\ [][Ev("cmd", "git rev-parse", 0) \in log' \ log => Happened("cmd", "chown", 0)]_vars
  /\ [][(log' \ log) \cap {Ev("cmd", "git pull", 0), Ev("cmd", "git clone", 0)} # {}
          => /\ Happened("cmd", "git rev-parse", 0)
             /\ Ev("cmd", "git pull", 0) \in log' <=> repo
             /\ Ev("cmd", "git clone", 0) \in log' <=> ~repo]_vars
  /\ [][\A c \in CmdCodes :
          SyncReturned(c)
            => IF c = 0 THEN pc' = "mode" /\ exit_status' = NoExit
               ELSE pc' = "done" /\ exit_status' = c /\ ModeSpecific' = {}]_vars
  /\ Terminal

\* the probe failed, the clone succeeded, and a pair was examined
C16_Witness ==
  /\ ~repo
  /\ Happened("cmd", "git clone", 0)
  /\ Happened("examine", "entry", 1)

\* a command run with abort_on_failure left at True ended with c: the run
\* goes on to next when c is 0, and ends there with c otherwise
FatalOutcome(c, next) ==
  IF c = 0 THEN pc' = next /\ exit_status' = NoExit
  ELSE pc' = "done" /\ exit_status' = c /\ Cardinality(log' \ log) <= 1

(* C17: a command that ends with 0 lets the run go on; a command run with   *)
(* abort_on_failure left at True that ends with a non-zero code ends the    *)
(* run there, with that code as the exit status and no later step; a        *)
(* command run with abort_on_failure=False that ends with a non-zero code   *)
(* gives False to its caller and the run goes on.                           *)
C17_FatalAndNonFatal ==
  /\ [][\A c \in CmdCodes :
          /\ ChownReturned(c) => FatalOutcome(c, "probe")
          /\ SyncReturned(c) => FatalOutcome(c, "mode")
          /\ PackageReturned("inventory", "inventory", "add", c) => FatalOutcome(c, "add")
          /\ PackageReturned("add", "git add", "commit", c) => FatalOutcome(c, "commit")
          /\ PackageReturned("commit", "git commit", "push", c) => FatalOutcome(c, "push")
          /\ PackageReturned("push", "git push", "pushed", c) => FatalOutcome(c, "pushed")
          /\ RevParseReturned(c)
               => (pc' = "sync" /\ exit_status' = NoExit /\ (repo' <=> c = 0))]_vars
  /\ [][(pc = "promptShow" /\ Ev("cmd", "clear", idx) \in log')
          => IF Ev("cmd", "diff | less", idx) \in log'
               THEN pc' = "entry" /\ exit_status' = NoExit
               ELSE pc' = "done" /\ exit_status' \in CmdCodes \ {0}]_vars
  /\ [][ModifiedAnswered(<<"V">>)
          => \/ /\ pc' = "while" /\ exit_status' = NoExit
                /\ {Ev("cmd", "clear", idx), Ev("cmd", "diff | less", idx)} \subseteq log'
             \/ /\ pc' = "done" /\ exit_status' \in CmdCodes \ {0}
                /\ Ev("cmd", "clear", idx) \in log']_vars
  /\ Terminal

\* the probe failed and the run went on; later git commit failed and the
\* run ended with its code, git push not run
C17_Witness ==
  /\ ~repo
  /\ Happened("cmd", "git rev-parse", 0)
  /\ Happened("cmd", "git clone", 0)
  /\ Happened("cmd", "git commit", 0)
  /\ ~Happened("cmd", "git push", 0)
  /\ pc = "done" /\ exit_status = 3

(* C18: in package list mode, with or without -D and -d, all that is done   *)
(* after the sync is the test of the host directory, the inventory command, *)
(* git add, git commit and git push, in this order, each only after the one *)
(* before it succeeded; a missing host directory ends the run with status 2 *)
(* and none of the commands run; the host directory of -D is not compared,  *)
(* the checklist is not read, no pair is examined and nothing is asked.     *)
C18_PackageModeSteps ==
  /\ [](args.package_list_mode
          => /\ ModeSpecific \subseteq PackageEvents
             /\ Happened("cmd", "inventory", 0) => Happened("check", "hostdir", 0)
             /\ Happened("cmd", "git add", 0) => Happened("cmd", "inventory", 0)
             /\ Happened("cmd", "git commit", 0) => Happened("cmd", "git add", 0)
             /\ Happened("cmd", "git push", 0) => Happened("cmd", "git commit", 0)
             /\ pc \in {"start", "chown", "probe", "sync", "mode", "inventory", "add",
                         "commit", "push", "pushed", "done"})
  /\ [][(args.package_list_mode /\ pc = "mode")
          => /\ log' = log \cup {Ev("check", "hostdir", 0)}
             /\ \/ pc' = "inventory" /\ exit_status' = NoExit
                \/ pc' = "done" /\ exit_status' = 2]_vars
  /\ [][\A c \in CmdCodes :
          /\ PackageReturned("inventory", "inventory", "add", c)
               => (log' = log \cup {Ev("cmd", "inventory", 0)} /\ (pc' # "done" <=> c = 0))
          /\ PackageReturned("add", "git add", "commit", c)
               => (log' = log \cup {Ev("cmd", "git add", 0)} /\ (pc' # "done" <=> c = 0))
          /\ PackageReturned("commit", "git commit", "push", c)
               => (log' = log \cup {Ev("cmd", "git commit", 0)} /\ (pc' # "done" <=> c = 0))
          /\ PackageReturned("push", "git push", "pushed", c)
               => (log' = log \cup {Ev("cmd", "git push", 0)} /\ (pc' # "done" <=> c = 0))]_vars
  /\ Terminal

\* a run with -p, -D and -d together that pushed the package list
C18_Witness ==
  /\ args.package_list_mode /\ args.diff_mode /\ args.dir_level = <<2>>
  /\ Happened("cmd", "git push", 0)
  /\ pc = "done" /\ exit_status = 0

----------------------------------------------------------------------------
(* The files the run writes *)

\* a step of the run itself, not of somebody else
ToolStep == {e \in log' : e.ev = "external"} = {e \in log : e.ev = "external"}

----------------------------------------------------------------------------
(* The end of the run and the order of the pairs *)

Examined(k) == Happened("examine", "entry", k)

(* C20: when every command returns, every question gets an answer that is   *)
(* taken and the four-choice question gets 'y' or 'n' in the end, the run   *)
(* ends with an exit status; the pairs are examined in the order of the     *)
(* checklist, each at most once, and a pair only after all the pairs before *)
(* it were examined and accepted.                                           *)
C20_TerminatesInOrder ==
  /\ <>(pc = "done" /\ exit_status # NoExit)
  /\ []((pc = "entry" /\ idx <= Len(checklist))
          => /\ ~Examined(idx)
             /\ \A j \in 1..(idx - 1) : Examined(j) /\ EntryAccepted(j))
  /\ [](\A e \in log : e.k <= idx /\ (e.k > 0 => e.k \in Entries))
  /\ [](\A k \in Entries : (Examined(k) /\ idx > k) => EntryAccepted(k))
  /\ [][idx' # idx => /\ idx' = idx + 1
                       /\ idx > 0 => /\ Ev("examine", "entry", idx) \in log'
                                      /\ Ev("examine", "entry", idx') \notin log']_vars
  /\ [][\A k \in 1..MaxEntries :
          (Ev("examine", "entry", k) \in log' \ log) => (pc = "entry" /\ k = idx)]_vars

\* a run of two pairs that ended with 0 after the diff was viewed and the
\* divergence accepted for the first, and the second was found up to date
C20_Witness ==
  /\ pc = "done" /\ exit_status = 0 /\ Len(checklist) = 2
  /\ Happened("answer", "v", 1) /\ Resolved("DivergenceAccepted", 1)
  /\ Examined(2) /\ Resolved("UpToDate", 2)

====
